---------------------------- MODULE Spec2Model ----------------------------
(***************************************************************************)
(* Model of _tools/check_theme_quality.py: the check runner (_run_check),  *)
(* the suite orchestrator (verify_theme_quality) and the concrete checks   *)
(* whose result sequences the claims are about.                            *)
(*                                                                         *)
(* Spec        the suite: every check is an arbitrary generator that       *)
(*             yields Success/Fix/Failure values, may raise, may return    *)
(*             None; _run_check consumes it, classifies, reports.          *)
(* SpecChecks  one concrete read-only check is run once over an input      *)
(*             drawn from a bounded set of directory contents.             *)
(* SpecFix     one auto-fixing check is run several times in a row over    *)
(*             one directory, rewriting the files it fixes.                *)
(***************************************************************************)
EXTENDS Integers, Sequences, FiniteSets, TLC

(***************************************************************************)
(* Bounds of the model.                                                    *)
(***************************************************************************)
\* number of checks in the suite list (the program's list has 13 entries)
NumChecks == 3
\* most results one check yields before it stops or raises
MaxResults == 3

\* subjects and reasons a result may carry
Files == {"f1", "f2"}
Reasons == {"reason"}

None == "None"

\* what "except Exception as e" can bind: an exception object whose truth
\* value is the default (true), or one whose class defines __bool__ or
\* __len__ so that it tests false
Exceptions == {"Exception", "FalsyException"}

\* the truth value Python gives raised_exception in "if raised_exception"
bool(exc) == exc # None /\ exc # "FalsyException"

(***************************************************************************)
(* Result model (the three dataclasses).                                   *)
(***************************************************************************)
Success(f) == [kind |-> "Success", file |-> f, reason |-> None]

Failure(f, r) == [kind |-> "Failure", file |-> f, reason |-> r]

Fix(f, r) == [kind |-> "Fix", file |-> f, reason |-> r]

Result ==
    {Success(f) : f \in Files}
        \cup {Failure(f, r) : f \in Files, r \in Reasons}
        \cup {Fix(f, r) : f \in Files, r \in Reasons}

IsSuccess(r) == r.kind = "Success"

IsFix(r) == r.kind = "Fix"

IsFailure(r) == r.kind = "Failure"

VARIABLES
    \* ---- verify_theme_quality ----
    checks,            \* the ordered list of checks
    idx,               \* position of the for loop in checks
    succeeded_count,
    started,           \* checks whose _run_check call has begun, in order
    log,               \* one entry per _run_check call that has returned
    verdict,           \* return value of verify_theme_quality, None while running
    summary,           \* the printed "<count> out of <total>" pair
    \* ---- _run_check (the call in progress, or the last one returned) ----
    pc,
    results,           \* what check() or [] evaluated to
    emitted,           \* every value the generator has yielded, in order
    successes,
    fixes,
    failures,
    raised_exception,
    label,             \* last text given to live.update
    printed,           \* lines printed below the closed live region
    ret,               \* value returned by _run_check
    \* ---- one concrete check function and the files it reads ----
    check,             \* name of the check function
    fs,                \* contents of the files and directories it reads
    runs               \* one entry per completed run: what it yielded

vars ==
    <<checks, idx, succeeded_count, started, log, verdict, summary, pc, results,
      emitted, successes, fixes, failures, raised_exception, label, printed, ret,
      check, fs, runs>>

suiteVars == <<checks, idx, succeeded_count, started, log, verdict, summary>>

runnerVars ==
    <<pc, results, emitted, successes, fixes, failures, raised_exception, label,
      printed, ret>>

checkVars == <<check, fs, runs>>

(***************************************************************************)
(* _run_check: status label chosen inside the live region.  The first     *)
(* test is the truth value of raised_exception, not "is not None".         *)
(***************************************************************************)
total(succ, fx, fl) == Len(succ) + Len(fx) + Len(fl)

Label_PassBeforeEmpty(exc, succ, fx, fl) ==
    IF bool(exc) THEN "ERROR"
    ELSE IF fx = <<>> /\ fl = <<>> THEN "PASS"
    ELSE IF total(succ, fx, fl) = 0 THEN "ERROR"
    ELSE IF fl = <<>> THEN "FIX"
    ELSE "FAIL"

Label_FixBeforePass(exc, succ, fx, fl) ==
    IF bool(exc) \/ total(succ, fx, fl) = 0 THEN "ERROR"
    ELSE IF fl = <<>> THEN "FIX"
    ELSE IF fx = <<>> /\ fl = <<>> THEN "PASS"
    ELSE "FAIL"

Label(exc, succ, fx, fl) ==
    IF bool(exc) \/ total(succ, fx, fl) = 0 THEN "ERROR"
    ELSE IF fx = <<>> /\ fl = <<>> THEN "PASS"
    ELSE IF fl = <<>> THEN "FIX"
    ELSE "FAIL"

(***************************************************************************)
(* _run_check: the lines printed after the live region closed.             *)
(* ppath only styles the path, so a line is (file, suffix, reason).        *)
(***************************************************************************)
inform(f, suffix, r) == [kind |-> "inform", file |-> f, suffix |-> suffix, reason |-> r]

TracebackLine(exc) == [kind |-> "traceback", file |-> None, suffix |-> "", reason |-> exc]

NoFilesLine ==
    [kind |-> "inform", file |-> None, suffix |-> "",
     reason |-> "No files was checked, this must be an error."]

Lines(rs, suffix) == [i \in 1..Len(rs) |-> inform(rs[i].file, suffix, rs[i].reason)]

PostMessages_FailuresFirst(exc, succ, fx, fl) ==
    IF exc # None THEN <<TracebackLine(exc)>>
    ELSE IF total(succ, fx, fl) = 0 THEN <<NoFilesLine>>
    ELSE IF fx = <<>> /\ fl = <<>> THEN <<>>
    ELSE IF fl = <<>> THEN Lines(fx, "")
    ELSE Lines(fl, "") \o Lines(fx, " (fixed)")

PostMessages_ReportsPartial(exc, succ, fx, fl) ==
    IF exc # None THEN <<TracebackLine(exc)>> \o Lines(fx, " (fixed)") \o Lines(fl, "")
    ELSE IF total(succ, fx, fl) = 0 THEN <<NoFilesLine>>
    ELSE IF fx = <<>> /\ fl = <<>> THEN <<>>
    ELSE IF fl = <<>> THEN Lines(fx, "")
    ELSE Lines(fx, " (fixed)") \o Lines(fl, "")

PostMessages_FixedSuffixAlways(exc, succ, fx, fl) ==
    IF exc # None THEN <<TracebackLine(exc)>>
    ELSE IF total(succ, fx, fl) = 0 THEN <<NoFilesLine>>
    ELSE IF fx = <<>> /\ fl = <<>> THEN <<>>
    ELSE Lines(fx, " (fixed)") \o Lines(fl, "")

PostMessages(exc, succ, fx, fl) ==
    IF exc # None THEN <<TracebackLine(exc)>>
    ELSE IF total(succ, fx, fl) = 0 THEN <<NoFilesLine>>
    ELSE IF fx = <<>> /\ fl = <<>> THEN <<>>
    ELSE IF fl = <<>> THEN Lines(fx, "")
    ELSE Lines(fx, " (fixed)") \o Lines(fl, "")

(***************************************************************************)
(* _run_check: the returned value.                                         *)
(***************************************************************************)
PostReturn(exc, succ, fx, fl) ==
    IF exc # None THEN FALSE
    ELSE IF total(succ, fx, fl) = 0 THEN FALSE
    ELSE IF fx = <<>> /\ fl = <<>> THEN TRUE
    ELSE IF fl = <<>> THEN TRUE
    ELSE FALSE

(***************************************************************************)
(* verify_theme_quality: the final comparison of the counter.              *)
(***************************************************************************)
SuiteVerdict_AnySucceeded(count, n) == count # 0

SuiteVerdict(count, n) == ~(count # n)

(***************************************************************************)
(* Initial state: verify_theme_quality has built its list and counter.     *)
(***************************************************************************)
InitSuite ==
    /\ checks = [i \in 1..NumChecks |-> i]
    /\ idx = 1
    /\ succeeded_count = 0
    /\ started = <<>>
    /\ log = <<>>
    /\ verdict = None
    /\ summary = None
    /\ pc = "loop"
    /\ results = None
    /\ emitted = <<>>
    /\ successes = <<>>
    /\ fixes = <<>>
    /\ failures = <<>>
    /\ raised_exception = None
    /\ label = None
    /\ printed = <<>>
    /\ ret = FALSE

Init ==
    /\ InitSuite
    /\ check = None
    /\ fs = None
    /\ runs = <<>>

(***************************************************************************)
(* for check in checks: _run_check(check) -- entry, locals initialised.    *)
(***************************************************************************)
run_check_enter ==
    /\ pc = "loop"
    /\ idx <= Len(checks)
    /\ started' = Append(started, checks[idx])
    /\ pc' = "call"
    /\ results' = None
    /\ emitted' = <<>>
    /\ successes' = <<>>
    /\ fixes' = <<>>
    /\ failures' = <<>>
    /\ raised_exception' = None
    /\ label' = "running"
    /\ printed' = <<>>
    /\ ret' = FALSE
    /\ UNCHANGED <<checks, idx, succeeded_count, log, verdict, summary>>
    /\ UNCHANGED checkVars

(***************************************************************************)
(* results = check() or []: the check hands back a generator, or nothing.  *)
(***************************************************************************)
run_check_call ==
    /\ pc = "call"
    /\ \E r \in {"generator", "empty"} :
        /\ results' = r
        /\ pc' = IF r = "generator" THEN "iter" ELSE "classify"
    /\ UNCHANGED <<suiteVars, emitted, successes, fixes, failures,
                   raised_exception, label, printed, ret>>
    /\ UNCHANGED checkVars

(***************************************************************************)
(* One turn of "for result in results": the generator yields a value and   *)
(* the runner files it by type.                                            *)
(***************************************************************************)
run_check_result ==
    /\ pc = "iter"
    /\ Len(emitted) < MaxResults
    /\ \E result \in Result :
        /\ emitted' = Append(emitted, result)
        /\ successes' = IF IsSuccess(result) THEN Append(successes, result) ELSE successes
        /\ fixes' = IF ~IsSuccess(result) /\ IsFix(result)
                    THEN Append(fixes, result) ELSE fixes
        /\ failures' = IF ~IsSuccess(result) /\ ~IsFix(result) /\ IsFailure(result)
                       THEN Append(failures, result) ELSE failures
    /\ UNCHANGED <<suiteVars, pc, results, raised_exception, label, printed, ret>>
    /\ UNCHANGED checkVars

(***************************************************************************)
(* The generator is exhausted: the for loop ends normally.                 *)
(***************************************************************************)
run_check_exhausted ==
    /\ pc = "iter"
    /\ pc' = "classify"
    /\ UNCHANGED <<suiteVars, results, emitted, successes, fixes, failures,
                   raised_exception, label, printed, ret>>
    /\ UNCHANGED checkVars

(***************************************************************************)
(* check() itself, or the generator on being pulled, raises an Exception:  *)
(* the except clause records it and the loop is abandoned.                 *)
(***************************************************************************)
run_check_except_Propagates ==
    /\ pc \in {"call", "iter"}
    /\ \E e \in Exceptions : raised_exception' = e
    /\ pc' = "done"
    /\ verdict' = FALSE
    /\ UNCHANGED <<checks, idx, succeeded_count, started, log, summary, results,
                   emitted, successes, fixes, failures, label, printed, ret>>
    /\ UNCHANGED checkVars

run_check_except ==
    /\ pc \in {"call", "iter"}
    /\ \E e \in Exceptions : raised_exception' = e
    /\ pc' = "classify"
    /\ UNCHANGED <<suiteVars, results, emitted, successes, fixes, failures,
                   label, printed, ret>>
    /\ UNCHANGED checkVars

(***************************************************************************)
(* total is computed and the live status line gets its final label.        *)
(***************************************************************************)
run_check_classify ==
    /\ pc = "classify"
    /\ label' = Label(raised_exception, successes, fixes, failures)
    /\ pc' = "post"
    /\ UNCHANGED <<suiteVars, results, emitted, successes, fixes, failures,
                   raised_exception, printed, ret>>
    /\ UNCHANGED checkVars

(***************************************************************************)
(* Post-processing and return; the caller adds the result to its counter   *)
(* and moves to the next check.                                            *)
(***************************************************************************)
run_check_return ==
    /\ pc = "post"
    /\ printed' = PostMessages(raised_exception, successes, fixes, failures)
    /\ ret' = PostReturn(raised_exception, successes, fixes, failures)
    /\ succeeded_count' = succeeded_count + (IF ret' THEN 1 ELSE 0)
    /\ log' = Append(log, [check |-> checks[idx], ret |-> ret',
                           fault |-> raised_exception # None])
    /\ idx' = idx + 1
    /\ pc' = "loop"
    /\ UNCHANGED <<checks, started, verdict, summary, results, emitted, successes,
                   fixes, failures, raised_exception, label>>
    /\ UNCHANGED checkVars

(***************************************************************************)
(* After the loop: the final summary line and the returned verdict.        *)
(***************************************************************************)
verify_theme_quality_finish ==
    /\ pc = "loop"
    /\ idx > Len(checks)
    /\ verdict' = SuiteVerdict(succeeded_count, Len(checks))
    /\ summary' = <<succeeded_count, Len(checks)>>
    /\ pc' = "done"
    /\ UNCHANGED <<checks, idx, succeeded_count, started, log, results, emitted,
                   successes, fixes, failures, raised_exception, label, printed, ret>>
    /\ UNCHANGED checkVars

Next ==
    \/ run_check_enter
    \/ run_check_call
    \/ run_check_result
    \/ run_check_exhausted
    \/ run_check_except
    \/ run_check_classify
    \/ run_check_return
    \/ verify_theme_quality_finish

Spec == Init /\ [][Next]_vars

(***************************************************************************)
(* The concrete checks.  A run of a check function is the sequence of      *)
(* results its generator yields, and whether it ended by raising.          *)
(***************************************************************************)
Run(rs, raised) == [results |-> rs, fault |-> raised, written |-> {}]

(***************************************************************************)
(* check_metadata_is_complete.  A metadata file is its <variables> element *)
(* (present or not) and, per required tag, whether the tag is there with   *)
(* text, there but empty, or missing.                                      *)
(***************************************************************************)
tags ==
    <<"systemName", "systemDescription", "systemManufacturer", "systemReleaseYear",
      "systemHardwareType", "systemCoverSize", "systemCartSize">>

TagNames == {tags[i] : i \in DOMAIN tags}

MetadataFiles == {"metadata/m1.xml"}

\* what _iter_files("metadata") can yield
MetadataInputs ==
    {<<>>}
        \cup {<<[path |-> p, variables |-> FALSE, tag |-> [t \in TagNames |-> "missing"]]>> :
                p \in MetadataFiles}
        \cup {<<[path |-> p, variables |-> TRUE, tag |-> tg]>> :
                p \in MetadataFiles, tg \in [TagNames -> {"ok", "empty", "missing"}]}

\* for tag in tags: ... yield Failure; continue
RECURSIVE tag_results(_, _)
tag_results(file, i) ==
    IF i > Len(tags) THEN <<>>
    ELSE LET data == file.tag[tags[i]]
             here == IF data = "missing"
                     THEN <<Failure(file.path, <<"Missing tag in primary variables", tags[i]>>)>>
                     ELSE IF data = "empty"
                     THEN <<Failure(file.path, <<"Empty tag in primary variables", tags[i]>>)>>
                     ELSE <<>>
         IN  here \o tag_results(file, i + 1)

\* the body of "for filepath in _iter_files('metadata')"; the inner for
\* loop has no break, so its else clause always runs
metadata_file_results(file) ==
    IF ~file.variables
    THEN <<Failure(file.path, <<"Missing primary <variables> tag">>)>>
    ELSE tag_results(file, 1) \o <<Success(file.path)>>

RECURSIVE check_metadata_is_complete(_)
check_metadata_is_complete(files) ==
    IF files = <<>> THEN <<>>
    ELSE metadata_file_results(Head(files)) \o check_metadata_is_complete(Tail(files))

(***************************************************************************)
(* check_no_missing_collections.  The metadata directory is a listing of   *)
(* files with their systemHardwareType text; collections.info is a list    *)
(* of text lines.                                                          *)
(***************************************************************************)
\* most metadata files in the directory
MaxSystems == 2
\* most lines in collections.info
MaxLines == 3

collections_file == "collections.info"

SystemPaths == {"metadata/a.xml", "metadata/b.xml", "metadata/a.txt"}

\* Path.stem
stem(p) ==
    CASE p = "metadata/a.xml" -> "a"
      [] p = "metadata/b.xml" -> "b"
      [] p = "metadata/a.txt" -> "a"

HardwareTexts == {"${i18n.custom-collection}", "${i18n.auto-collection}", "console", None}

TextLines == {"# a", " ", "a", " b ", "c", "d"}

startswith_hash(line) == line = "# a"

\* str.strip
strip(line) ==
    CASE line = " " -> ""
      [] line = " b " -> "b"
      [] OTHER -> line

SeqsUpTo(S, n) == UNION {[1..k -> S] : k \in 0..n}

NoRepeat(s) == \A i, j \in DOMAIN s : s[i] = s[j] => i = j

\* directory listings: distinct paths, in the order iterdir gives them
MetadataListings ==
    {[i \in DOMAIN ps |-> [path |-> ps[i], hardware |-> hw[i]]] :
        <<ps, hw>> \in {x \in SeqsUpTo(SystemPaths, MaxSystems) \X SeqsUpTo(HardwareTexts, MaxSystems) :
                          Len(x[1]) = Len(x[2]) /\ NoRepeat(x[1])}}

CollectionsInputs ==
    [metadata : MetadataListings, lines : SeqsUpTo(TextLines, MaxLines)]

IsCollection(m) ==
    m.hardware \in {"${i18n.custom-collection}", "${i18n.auto-collection}"}

\* first loop: the systems whose hardware type is a collection
system_collections(metadata) == SelectSeq(metadata, IsCollection)

\* hardware.text on a metadata file without the tag raises
metadata_raises(metadata) == \E i \in DOMAIN metadata : metadata[i].hardware = None

\* second loop: the entries of collections.info
theme_collections(lines) ==
    {strip(lines[i]) :
        i \in {j \in DOMAIN lines : ~(startswith_hash(lines[j]) \/ strip(lines[j]) = "")}}

\* third loop: one result per system; a matched entry is removed from the set
RECURSIVE match_systems_KeepsEntries(_, _)
match_systems_KeepsEntries(systems, theme) ==
    IF systems = <<>> THEN [results |-> <<>>, left |-> theme]
    ELSE LET system == Head(systems)
             rest == match_systems_KeepsEntries(Tail(systems), theme)
         IN  IF stem(system.path) \in theme
             THEN [results |-> <<Success(system.path)>> \o rest.results, left |-> rest.left]
             ELSE [results |-> <<Failure(system.path, <<"Collection not referenced">>)>>
                                    \o rest.results,
                   left |-> rest.left]

RECURSIVE match_systems(_, _)
match_systems(systems, theme) ==
    IF systems = <<>> THEN [results |-> <<>>, left |-> theme]
    ELSE LET system == Head(systems)
         IN  IF stem(system.path) \in theme
             THEN LET rest == match_systems(Tail(systems), theme \ {stem(system.path)})
                  IN  [results |-> <<Success(system.path)>> \o rest.results,
                       left |-> rest.left]
             ELSE LET rest == match_systems(Tail(systems), theme)
                  IN  [results |-> <<Failure(system.path, <<"Collection not referenced">>)>>
                                        \o rest.results,
                       left |-> rest.left]

check_no_missing_collections(dir) ==
    IF metadata_raises(dir.metadata) THEN Run(<<>>, TRUE)
    ELSE LET m == match_systems(system_collections(dir.metadata),
                                theme_collections(dir.lines))
         IN  Run(m.results
                    \o (IF m.left # {}
                        THEN <<Failure(collections_file,
                                       <<"Collections file has extra entries", m.left>>)>>
                        ELSE <<>>),
                 FALSE)

(***************************************************************************)
(* The two translation checks.  theme-lang.xml and a metadata file are     *)
(* the list of their <variables> elements: the lang attribute as written   *)
(* and the set of child tags.                                              *)
(***************************************************************************)
\* most <variables> elements in one XML file
MaxVariables == 2

theme_lang == "ui-components/theme-lang.xml"

LangAttrs == {None, "en", " EN ", "es"}

\* lang.strip().lower()
strip_lower(lang) == IF lang = " EN " THEN "en" ELSE lang

ChildTags == {"t1", "t2"}

VariablesElements == [lang : LangAttrs, tags : SUBSET ChildTags]

HasLang(var) == var.lang # None

\* the orders in which iterating a set of tags may deliver them
TagOrders == {o \in [1..Cardinality(ChildTags) -> ChildTags] : NoRepeat(o)}

\* for tag in required_tags: lang_tags.remove(tag), Failure on KeyError
missing_tag_results(var, required_tags, order) ==
    LET missing(t) == t \in required_tags /\ t \notin var.tags
        hit == SelectSeq(order, missing)
    IN  [i \in DOMAIN hit |->
            Failure(theme_lang, <<"Missing tag in language", hit[i], strip_lower(var.lang)>>)]

variables_results(var, required_tags, order) ==
    missing_tag_results(var, required_tags, order)
        \o (IF var.tags \ required_tags # {}
            THEN <<Failure(theme_lang, <<"Unexpected tags in language", strip_lower(var.lang),
                                         var.tags \ required_tags>>)>>
            ELSE <<>>)

RECURSIVE all_variables_results(_, _, _)
all_variables_results(vs, required_tags, order) ==
    IF vs = <<>> THEN <<>>
    ELSE (IF HasLang(Head(vs)) THEN variables_results(Head(vs), required_tags, order)
          ELSE <<>>)
            \o all_variables_results(Tail(vs), required_tags, order)

\* tree.find("variables") is None in a file without the element, and
\* get_child_tags(None) raises
check_all_variables_fully_translated(tree, order) ==
    IF tree = <<>> THEN Run(<<>>, TRUE)
    ELSE Run(all_variables_results(tree, tree[1].tags, order) \o <<Success(theme_lang)>>,
             FALSE)

VariablesInputs == SeqsUpTo(VariablesElements, MaxVariables)

\* ---- check_all_systems_fully_translated ----
required_langs(tree) == {strip_lower(tree[i].lang) : i \in {j \in DOMAIN tree : HasLang(tree[j])}}

\* for var in variables: expected_langs.remove(lang), Failure on KeyError
RECURSIVE unexpected_language_results(_, _, _)
unexpected_language_results(path, vs, expected_langs) ==
    IF vs = <<>> THEN [results |-> <<>>, left |-> expected_langs]
    ELSE LET var == Head(vs)
             lang == strip_lower(var.lang)
         IN  IF ~HasLang(var)
             THEN unexpected_language_results(path, Tail(vs), expected_langs)
             ELSE IF lang \in expected_langs
             THEN unexpected_language_results(path, Tail(vs), expected_langs \ {lang})
             ELSE LET rest == unexpected_language_results(path, Tail(vs), expected_langs)
                  IN  [results |-> <<Failure(path, <<"Unexpected language", lang>>)>>
                                        \o rest.results,
                       left |-> rest.left]

system_file_results(file, required) ==
    LET u == unexpected_language_results(file.path, file.variables, required)
    IN  u.results
            \o (IF u.left # {}
                THEN <<Failure(file.path, <<"Missing translations", u.left>>)>>
                ELSE <<Success(file.path)>>)

RECURSIVE systems_results(_, _)
systems_results(files, required) ==
    IF files = <<>> THEN <<>>
    ELSE system_file_results(Head(files), required) \o systems_results(Tail(files), required)

check_all_systems_fully_translated(dir) ==
    IF required_langs(dir.theme_lang) = {}
    THEN <<Failure(theme_lang, <<"No languages found">>)>>
    ELSE systems_results(dir.metadata, required_langs(dir.theme_lang))

LangLists == SeqsUpTo([lang : LangAttrs, tags : {{}}], MaxVariables)

SystemsInputs ==
    [theme_lang : LangLists,
     metadata : {<<>>} \cup {<<[path |-> p, variables |-> vs]>> :
                                p \in MetadataFiles, vs \in LangLists}]

(***************************************************************************)
(* SpecChecks: one check function, one input, one run.                     *)
(***************************************************************************)
InitChecks ==
    /\ InitSuite
    /\ runs = <<>>
    /\ \/ check = "check_metadata_is_complete" /\ fs \in MetadataInputs
       \/ check = "check_no_missing_collections" /\ fs \in CollectionsInputs
       \/ check = "check_all_variables_fully_translated" /\ fs \in VariablesInputs
       \/ check = "check_all_systems_fully_translated" /\ fs \in SystemsInputs

run_check_metadata_is_complete ==
    /\ check = "check_metadata_is_complete"
    /\ runs = <<>>
    /\ runs' = <<Run(check_metadata_is_complete(fs), FALSE)>>
    /\ UNCHANGED <<check, fs>>
    /\ UNCHANGED <<suiteVars, runnerVars>>

run_check_no_missing_collections ==
    /\ check = "check_no_missing_collections"
    /\ runs = <<>>
    /\ runs' = <<check_no_missing_collections(fs)>>
    /\ UNCHANGED <<check, fs>>
    /\ UNCHANGED <<suiteVars, runnerVars>>

run_check_all_variables_fully_translated ==
    /\ check = "check_all_variables_fully_translated"
    /\ runs = <<>>
    /\ \E order \in TagOrders :
        runs' = <<check_all_variables_fully_translated(fs, order)>>
    /\ UNCHANGED <<check, fs>>
    /\ UNCHANGED <<suiteVars, runnerVars>>

run_check_all_systems_fully_translated ==
    /\ check = "check_all_systems_fully_translated"
    /\ runs = <<>>
    /\ runs' = <<Run(check_all_systems_fully_translated(fs), FALSE)>>
    /\ UNCHANGED <<check, fs>>
    /\ UNCHANGED <<suiteVars, runnerVars>>

NextChecks ==
    \/ run_check_metadata_is_complete
    \/ run_check_no_missing_collections
    \/ run_check_all_variables_fully_translated
    \/ run_check_all_systems_fully_translated

SpecChecks == InitChecks /\ [][NextChecks]_vars

(***************************************************************************)
(* The auto-fixing checks.  A file is what the check reads of it.          *)
(*                                                                         *)
(* An SVG or XML file: whether it parses, and whether its bytes are what   *)
(* lxml writes for its tree once indented (indent followed by tostring is  *)
(* taken to reproduce such bytes, being library behaviour).  An SVG file   *)
(* also: whether it holds sodipodi/inkscape elements, attributes or        *)
(* namespaces, and the text of its style attribute.  A style text is a     *)
(* string over four symbols: "I" is the literal -inkscape-, ";" and " "    *)
(* are themselves, "a" is any other character.  An attribute is a record   *)
(* saying whether it is present, and its text.                             *)
(***************************************************************************)
\* longest style text
MaxStyleLen == 3
\* consecutive runs of the same check
MaxRuns == 2

StyleChars == {"I", "a", ";", " "}

StyleTexts == SeqsUpTo(StyleChars, MaxStyleLen)

\* [^;]+ : everything up to the next ";"
RECURSIVE drop_property(_)
drop_property(s) ==
    IF s = <<>> \/ Head(s) = ";" THEN s ELSE drop_property(Tail(s))

\* ;?
drop_semicolon(s) == IF s # <<>> /\ Head(s) = ";" THEN Tail(s) ELSE s

\* \s*
RECURSIVE drop_spaces(_)
drop_spaces(s) == IF s # <<>> /\ Head(s) = " " THEN drop_spaces(Tail(s)) ELSE s

\* inkscape_css_re.sub("", style_text), the pattern being -inkscape-[^;]+;?\s*
RECURSIVE inkscape_css_sub(_)
inkscape_css_sub(s) ==
    IF s = <<>> THEN <<>>
    ELSE IF Head(s) = "I" /\ Len(s) >= 2 /\ s[2] # ";"
    THEN inkscape_css_sub(drop_spaces(drop_semicolon(drop_property(Tail(s)))))
    ELSE <<Head(s)>> \o inkscape_css_sub(Tail(s))

RECURSIVE rdrop(_, _)
rdrop(s, c) ==
    IF s # <<>> /\ s[Len(s)] = c THEN rdrop(SubSeq(s, 1, Len(s) - 1), c) ELSE s

\* str.strip()
strip_spaces(s) == rdrop(drop_spaces(s), " ")

\* the style of an element after the loop over //*[@style]:
\* sub, strip, rstrip(";"), and the attribute deleted when nothing is left
NoStyle == [present |-> FALSE, text |-> <<>>]

Style(text) == [present |-> TRUE, text |-> text]

new_style(style_text) == rdrop(strip_spaces(inkscape_css_sub(style_text)), ";")

\* if new_style: el.set("style", new_style) else: del el.attrib["style"]
restyled(style) ==
    IF ~style.present THEN style
    ELSE IF new_style(style.text) # <<>> THEN Style(new_style(style.text))
    ELSE NoStyle

SvgContents ==
    [wellformed : {TRUE}, editor_data : BOOLEAN,
     style : {NoStyle} \cup {Style(t) : t \in StyleTexts}, as_written : BOOLEAN]
        \cup [wellformed : {FALSE}, editor_data : {FALSE}, style : {NoStyle},
              as_written : {FALSE}]

\* the bytes "formatted" of check_svg_formatting
formatted_svg(content) ==
    [wellformed |-> TRUE, editor_data |-> FALSE, style |-> restyled(content.style),
     as_written |-> TRUE]

XmlContents == [wellformed : BOOLEAN, as_written : BOOLEAN]

\* the bytes "formatted" of check_xml_formatting
formatted_xml(content) == [wellformed |-> TRUE, as_written |-> TRUE]

\* one file of a formatting check: the result yielded and the bytes on
\* disk afterwards
format_file(file, formatted, what) ==
    IF ~file.content.wellformed
    THEN [result |-> Failure(file.path, <<"Could not parse file", what>>),
          content |-> file.content, wrote |-> FALSE]
    ELSE IF formatted = file.content
    THEN [result |-> Success(file.path), content |-> file.content, wrote |-> FALSE]
    ELSE [result |-> Fix(file.path, <<"Formatted file", what>>),
          content |-> formatted, wrote |-> TRUE]

check_svg_formatting_file(file) ==
    format_file(file, formatted_svg(file.content), "SVG")

check_xml_formatting_file(file) ==
    format_file(file, formatted_xml(file.content), "XML")

(***************************************************************************)
(* check_vector_image_dimensions.  Lengths are exact fractions n/d (the    *)
(* program uses floats; rounding is not modelled).  A width or height      *)
(* attribute is: present or not, whether its text starts with digits or    *)
(* dots (so that num_unit's regex matches), and the number and the unit    *)
(* the regex reads.  A viewBox attribute is: present or not, whether its   *)
(* text splits into four floats, and the last two of them.                 *)
(***************************************************************************)
RECURSIVE gcd(_, _)
gcd(a, b) == IF b = 0 THEN a ELSE gcd(b, a % b)

frac(n, d) == LET g == gcd(n, d) IN [n |-> n \div g, d |-> d \div g]

whole(n) == [n |-> n, d |-> 1]

\* a * b, cancelling first
times(a, b) ==
    IF a.n = 0 \/ b.n = 0 THEN whole(0)
    ELSE LET x == frac(a.n, b.d)
             y == frac(b.n, a.d)
         IN  [n |-> x.n * y.n, d |-> x.d * y.d]

\* a / b, for b # 0
over(a, b) == times(a, [n |-> b.d, d |-> b.n])

\* a > b, for b # 0
greater(a, b) == LET q == over(a, b) IN q.n > q.d

target_w == 600

target_h == 300

supported_unit(unit) == unit \in {"px", "", "pt", "pc", "in", "cm", "mm"}

\* conv_unit, for a supported unit (any other raises ValueError)
conv_unit(v, unit) ==
    IF unit = "px" \/ unit = "" THEN v
    ELSE IF unit = "pt" THEN times(v, frac(5, 4))
    ELSE IF unit = "pc" THEN times(v, whole(15))
    ELSE IF unit = "in" THEN times(v, whole(96))
    ELSE IF unit = "cm" THEN times(v, frac(9600, 254))
    ELSE times(v, frac(960, 254))

\* str(x) of a float uses exponent notation below 0.0001
uses_exponent(x) == x.n # 0 /\ x.n <= (x.d - 1) \div 10000

Dim(number, unit) == [present |-> TRUE, numeric |-> TRUE, number |-> number, unit |-> unit]

NoDim == [present |-> FALSE, numeric |-> FALSE, number |-> whole(0), unit |-> ""]

NotNumeric == [present |-> TRUE, numeric |-> FALSE, number |-> whole(0), unit |-> ""]

\* root.set(..., str(x)) for a float x, as num_unit reads it back: of
\* "6e-05" the regex takes "6" as the number and "e" as the unit
float_text(x) == IF uses_exponent(x) THEN Dim(x, "e") ELSE Dim(x, "")

\* root.set(..., str(n)) for an int n
int_text(n) == Dim(whole(n), "")

ViewBox(w, h) == [present |-> TRUE, floats |-> TRUE, w |-> w, h |-> h]

NoViewBox == [present |-> FALSE, floats |-> FALSE, w |-> whole(0), h |-> whole(0)]

MalformedViewBox == [present |-> TRUE, floats |-> FALSE, w |-> whole(0), h |-> whole(0)]

Numbers == {0, 1, 300, 600, 1200, 6000001}

Units == {"", "pt", "%"}

DimTexts == {NoDim, NotNumeric} \cup {Dim(whole(n), u) : n \in Numbers, u \in Units}

ViewBoxes ==
    {NoViewBox, MalformedViewBox, ViewBox(whole(600), whole(300)),
     ViewBox(whole(1200), whole(300)), ViewBox(whole(300), whole(300))}

LogoContents ==
    [wellformed : {TRUE}, view_box : ViewBoxes, width : DimTexts, height : DimTexts,
     as_written : BOOLEAN]
        \cup [wellformed : {FALSE}, view_box : {NoViewBox}, width : {NoDim},
              height : {NoDim}, as_written : {FALSE}]

\* the generator raises while it is on this file
Faulted(file) ==
    [result |-> Success(file.path), content |-> file.content, wrote |-> FALSE,
     fault |-> TRUE]

Yielded(file, r) == [result |-> r, content |-> file.content, wrote |-> FALSE, fault |-> FALSE]

\* the attributes once w and h are known: viewBox added when absent, then
\* the rescaling to 600 wide or 300 high (h * target_w / w is evaluated as
\* h * (target_w / w), the same fraction)
rescaled(c, w, h) ==
    LET c1 == IF ~c.view_box.present THEN [c EXCEPT !.view_box = ViewBox(w, h)] ELSE c
    IN  IF greater(w, times(whole(2), h))
        THEN IF w # whole(target_w)
             THEN [c1 EXCEPT !.width = int_text(target_w),
                             !.height = float_text(times(h, over(whole(target_w), w)))]
             ELSE c1
        ELSE IF h # whole(target_h)
             THEN [c1 EXCEPT !.height = int_text(target_h),
                             !.width = float_text(times(w, over(whole(target_h), h)))]
             ELSE c1

\* from the point where w and h are known
check_vector_image_dimensions_size(file, w, h) ==
    IF h.n = 0 THEN Faulted(file)                      \* w / h: ZeroDivisionError
    ELSE LET new == rescaled(file.content, w, h)
             formatted == [new EXCEPT !.as_written = TRUE]
         IN  IF new = file.content THEN Yielded(file, Success(file.path))
             ELSE IF formatted = file.content THEN Yielded(file, Success(file.path))
             ELSE [result |-> Fix(file.path, <<"Rescaled SVG">>), content |-> formatted,
                   wrote |-> TRUE, fault |-> FALSE]

check_vector_image_dimensions_file(file) ==
    LET c == file.content
    IN  IF ~c.wellformed
        THEN Yielded(file, Failure(file.path, <<"Could not parse file", "SVG">>))
        ELSE IF ~c.view_box.present /\ (~c.width.present \/ ~c.height.present)
        THEN Yielded(file, Failure(file.path,
                                   <<"SVG must have a viewBox or both width and height">>))
        ELSE IF ~c.width.present \/ ~c.height.present
        THEN IF ~c.view_box.floats THEN Faulted(file)
             ELSE check_vector_image_dimensions_size(file, c.view_box.w, c.view_box.h)
        ELSE IF ~c.width.numeric \/ ~c.height.numeric
        THEN Faulted(file)                              \* m is None in num_unit
        ELSE IF ~supported_unit(c.width.unit) \/ ~supported_unit(c.height.unit)
        THEN Faulted(file)
        ELSE check_vector_image_dimensions_size(file,
                                                conv_unit(c.width.number, c.width.unit),
                                                conv_unit(c.height.number, c.height.unit))

(***************************************************************************)
(* A run of a fixing check over the files of its directory: the results    *)
(* up to the first fault, the files rewritten, the directory afterwards.   *)
(***************************************************************************)
FixRun(rs, raised, written) == [results |-> rs, fault |-> raised, written |-> written]

first_fault(outs) ==
    IF \E i \in DOMAIN outs : outs[i].fault
    THEN CHOOSE i \in DOMAIN outs : outs[i].fault /\ \A j \in 1..(i - 1) : ~outs[j].fault
    ELSE Len(outs) + 1

run_over(files, outs) ==
    LET k == first_fault(outs)
    IN  [run |-> FixRun([i \in 1..(k - 1) |-> outs[i].result], k <= Len(outs),
                        {files[i].path : i \in {j \in 1..(k - 1) : outs[j].wrote}}),
         files |-> [i \in DOMAIN files |->
                       IF i < k THEN [path |-> files[i].path, content |-> outs[i].content]
                       ELSE files[i]]]

check_svg_formatting(files) ==
    run_over(files, [i \in DOMAIN files |->
                        check_svg_formatting_file(files[i]) @@ [fault |-> FALSE]])

check_xml_formatting(files) ==
    run_over(files, [i \in DOMAIN files |->
                        check_xml_formatting_file(files[i]) @@ [fault |-> FALSE]])

check_vector_image_dimensions(files) ==
    run_over(files, [i \in DOMAIN files |-> check_vector_image_dimensions_file(files[i])])

(***************************************************************************)
(* SpecFix: one fixing check run MaxRuns times in a row over one           *)
(* directory, nothing else touching the files.                             *)
(***************************************************************************)
Directory(paths, contents) ==
    {<<>>} \cup {<<[path |-> p, content |-> c]>> : p \in paths, c \in contents}

InitFix ==
    /\ InitSuite
    /\ runs = <<>>
    /\ \/ check = "check_svg_formatting" /\ fs \in Directory({"logos-svg/s1.svg"}, SvgContents)
       \/ check = "check_xml_formatting" /\ fs \in Directory({"metadata/m1.xml"}, XmlContents)
       \/ /\ check = "check_vector_image_dimensions"
          /\ fs \in Directory({"logos-svg/s1.svg"}, LogoContents)

run_check_svg_formatting ==
    /\ check = "check_svg_formatting"
    /\ Len(runs) < MaxRuns
    /\ runs' = Append(runs, check_svg_formatting(fs).run)
    /\ fs' = check_svg_formatting(fs).files
    /\ UNCHANGED check
    /\ UNCHANGED <<suiteVars, runnerVars>>

run_check_xml_formatting ==
    /\ check = "check_xml_formatting"
    /\ Len(runs) < MaxRuns
    /\ runs' = Append(runs, check_xml_formatting(fs).run)
    /\ fs' = check_xml_formatting(fs).files
    /\ UNCHANGED check
    /\ UNCHANGED <<suiteVars, runnerVars>>

run_check_vector_image_dimensions ==
    /\ check = "check_vector_image_dimensions"
    /\ Len(runs) < MaxRuns
    /\ runs' = Append(runs, check_vector_image_dimensions(fs).run)
    /\ fs' = check_vector_image_dimensions(fs).files
    /\ UNCHANGED check
    /\ UNCHANGED <<suiteVars, runnerVars>>

NextFix ==
    \/ run_check_svg_formatting
    \/ run_check_xml_formatting
    \/ run_check_vector_image_dimensions

SpecFix == InitFix /\ [][NextFix]_vars

(***************************************************************************)
(* Properties of the runner and the suite, checked under Spec.             *)
(***************************************************************************)
\* the last _run_check call has returned and its locals are still in view
Returned == log # <<>> /\ Len(log) = Len(started)

EmittedFixes == SelectSeq(emitted, IsFix)

EmittedFailures == SelectSeq(emitted, IsFailure)

\* C1: a check that yielded any Failure and raised nothing is labelled FAIL,
\* returns false, and its report is the fixes with the "(fixed)" suffix
\* followed by the failures, each group in the order it was yielded.
C1_FailedReport ==
    (Returned /\ raised_exception = None /\ EmittedFailures # <<>>) =>
        /\ label = "FAIL"
        /\ ret = FALSE
        /\ printed = Lines(EmittedFixes, " (fixed)") \o Lines(EmittedFailures, "")

C1_Witness ==
    /\ Returned
    /\ raised_exception = None
    /\ Len(emitted) = 3
    /\ IsFailure(emitted[1])
    /\ IsFix(emitted[2])
    /\ IsFix(emitted[3])
    /\ emitted[2].file # emitted[3].file
    /\ label = "FAIL"
    /\ Len(printed) = 3

\* C2: a check that yields nothing (an exhausted generator or no sequence
\* at all) and raises nothing is labelled ERROR, never PASS, prints the
\* "no files" line and returns false.
C2_EmptyIsError ==
    (Returned /\ raised_exception = None /\ emitted = <<>>) =>
        /\ label = "ERROR"
        /\ ret = FALSE
        /\ printed = <<NoFilesLine>>

C2_Witness ==
    /\ Returned
    /\ raised_exception = None
    /\ results = "generator"
    /\ emitted = <<>>
    /\ label = "ERROR"
    /\ printed = <<NoFilesLine>>

\* C3: once a check raises, nothing more is consumed; the check is labelled
\* ERROR, returns false, and only the fault's traceback is printed, whatever
\* was yielded before the fault.
C3_FaultIsError ==
    /\ (raised_exception # None /\ Len(started) > Len(log)) => pc \in {"classify", "post"}
    /\ (Returned /\ raised_exception # None) =>
        /\ label = "ERROR"
        /\ ret = FALSE
        /\ printed = <<TracebackLine(raised_exception)>>

C3_Witness ==
    /\ Returned
    /\ raised_exception # None
    /\ fixes # <<>>
    /\ failures # <<>>
    /\ successes # <<>>
    /\ label = "ERROR"

\* C4: a check that yielded at least one Fix, no Failure and raised nothing
\* is labelled FIX, returns true, and prints one unsuffixed line per Fix in
\* the order the fixes were yielded.
C4_FixedReport ==
    (Returned /\ raised_exception = None /\ EmittedFixes # <<>> /\ EmittedFailures = <<>>) =>
        /\ label = "FIX"
        /\ ret = TRUE
        /\ printed = Lines(EmittedFixes, "")

C4_Witness ==
    /\ Returned
    /\ raised_exception = None
    /\ Len(emitted) = 3
    /\ IsFix(emitted[1])
    /\ IsSuccess(emitted[2])
    /\ IsFix(emitted[3])
    /\ emitted[1].file # emitted[3].file
    /\ label = "FIX"
    /\ Len(printed) = 2

\* C5: a check that yielded one or more results, all Success, and raised
\* nothing is labelled PASS, prints no line and returns true.
C5_AllSuccessPasses ==
    (/\ Returned
     /\ raised_exception = None
     /\ emitted # <<>>
     /\ \A i \in DOMAIN emitted : IsSuccess(emitted[i])) =>
        /\ label = "PASS"
        /\ printed = <<>>
        /\ ret = TRUE

C5_Witness ==
    /\ Returned
    /\ raised_exception = None
    /\ Len(emitted) = 2
    /\ \A i \in DOMAIN emitted : IsSuccess(emitted[i])
    /\ label = "PASS"
    /\ ret = TRUE

\* C6: verify_theme_quality returns true exactly when every _run_check call
\* returned true, and the summary shows the number of calls that returned
\* true over the number of checks.
C6_SuiteVerdict ==
    pc = "done" =>
        /\ verdict = (\A i \in DOMAIN log : log[i].ret)
        /\ summary = <<Cardinality({i \in DOMAIN log : log[i].ret}), Len(checks)>>

\* Pass, Fixed, Failed: false, "2 out of 3"
C6_Witness ==
    /\ pc = "done"
    /\ Len(log) = 3
    /\ log[1].ret /\ log[2].ret /\ ~log[3].ret
    /\ label = "FAIL"
    /\ verdict = FALSE
    /\ summary = <<2, 3>>

\* C7: the checks are started one at a time in list order, a check starts
\* only after the previous call has returned, and the suite ends only after
\* every check has been run once, faults and failed checks included.
C7_EveryCheckRunsInOrder ==
    /\ started = SubSeq(checks, 1, Len(started))
    /\ Len(log) <= Len(started)
    /\ Len(started) <= Len(log) + 1
    /\ \A i \in DOMAIN log : log[i].check = checks[i]
    /\ (pc \in {"call", "iter", "classify", "post"}) <=> (Len(started) = Len(log) + 1)
    /\ pc = "done" => (started = checks /\ Len(log) = Len(checks))

C7_Witness ==
    /\ pc = "done"
    /\ Len(log) = Len(checks)
    /\ log[1].fault
    /\ ~log[2].fault /\ ~log[2].ret
    /\ log[3].ret

\* C11: when _run_check has returned, the label shown in the live region and
\* the returned value agree: PASS or FIX exactly with true, ERROR or FAIL
\* exactly with false.
\* (Checked under Spec; the label chain tests the truth value of the
\* exception, the return chain tests "is not None".)
C11_LabelAgreesWithReturn ==
    Returned =>
        /\ label \in {"PASS", "FIX"} <=> ret = TRUE
        /\ label \in {"ERROR", "FAIL"} <=> ret = FALSE

(***************************************************************************)
(* Properties of the concrete checks.                                      *)
(***************************************************************************)
\* C8: within one run of a check, no two results name the same file.
\* (Checked under SpecChecks; the checks contradict it.)
C8_OneResultPerSubject ==
    \A k \in DOMAIN runs :
        \A i, j \in DOMAIN runs[k].results :
            runs[k].results[i].file = runs[k].results[j].file => i = j

CollectionsDone ==
    check = "check_no_missing_collections" /\ runs # <<>> /\ ~runs[1].fault

Count(rs, kind, files) ==
    Cardinality({i \in DOMAIN rs : rs[i].kind = kind /\ rs[i].file \in files})

\* C9 as claimed: one Failure per collection system that the file does not
\* reference, one Success per system it references, and one Failure per
\* entry of the file that matches no system (systems with distinct names,
\* at least one of them referenced by the file).
C9_OneFailurePerUnmatchedEntry ==
    CollectionsDone =>
        LET sys == system_collections(fs.metadata)
            ent == theme_collections(fs.lines)
            out == runs[1].results
            names == {stem(sys[i].path) : i \in DOMAIN sys}
            paths == {sys[i].path : i \in DOMAIN sys}
        IN  (Cardinality(names) = Len(sys) /\ names \cap ent # {}) =>
                /\ \A i \in DOMAIN sys :
                    /\ Count(out, "Failure", {sys[i].path})
                           = (IF stem(sys[i].path) \in ent THEN 0 ELSE 1)
                    /\ Count(out, "Success", {sys[i].path})
                           = (IF stem(sys[i].path) \in ent THEN 1 ELSE 0)
                /\ Len(out) - Count(out, "Failure", paths) - Count(out, "Success", paths)
                       = Cardinality(ent \ names)

\* C9 as the code has it: one result per collection system, in directory
\* order -- Success when its name is an entry of the file not already taken
\* by an earlier system of the same name, Failure otherwise -- then, exactly
\* when some entry matches no system, one single Failure on the collections
\* file that lists all such entries.
C9_UnmatchedEntriesInOneFailure ==
    CollectionsDone =>
        LET sys == system_collections(fs.metadata)
            ent == theme_collections(fs.lines)
            out == runs[1].results
            names == {stem(sys[i].path) : i \in DOMAIN sys}
            extra == ent \ names
            n == Len(sys)
        IN  /\ Len(out) = n + (IF extra # {} THEN 1 ELSE 0)
            /\ \A i \in 1..n :
                /\ out[i].file = sys[i].path
                /\ out[i].kind \in {"Success", "Failure"}
                /\ out[i].kind = "Success" <=>
                       /\ stem(sys[i].path) \in ent
                       /\ \A j \in 1..(i - 1) : stem(sys[j].path) # stem(sys[i].path)
            /\ extra # {} =>
                out[n + 1] = Failure(collections_file,
                                     <<"Collections file has extra entries", extra>>)

\* one system referenced, one not, two entries that match no system
C9_Witness ==
    /\ CollectionsDone
    /\ Len(system_collections(fs.metadata)) = 2
    /\ Len(runs[1].results) = 3
    /\ runs[1].results[1].kind = "Success"
    /\ runs[1].results[2].kind = "Failure"
    /\ runs[1].results[3].file = collections_file
    /\ Cardinality(runs[1].results[3].reason[2]) = 2

\* C10: a file that got Fix in one run of a fixing check gets Success in the
\* next run of the same check, which does not rewrite it.
\* (Checked under SpecFix; check_svg_formatting and
\* check_vector_image_dimensions contradict it.)
C10_FixedFilesSucceedOnRerun ==
    \A k \in 1..(Len(runs) - 1) :
        \A i \in DOMAIN runs[k].results :
            IsFix(runs[k].results[i]) =>
                LET f == runs[k].results[i].file
                IN  /\ \E j \in DOMAIN runs[k + 1].results :
                        runs[k + 1].results[j] = Success(f)
                    /\ \A j \in DOMAIN runs[k + 1].results :
                        runs[k + 1].results[j].file = f => IsSuccess(runs[k + 1].results[j])
                    /\ f \notin runs[k + 1].written

=============================================================================
